---- MODULE Spec2Model ----
(***************************************************************************)
(* Model of the array bridge of equistore's Python bindings                *)
(* (python/src/equistore/data/array.py): ArrayWrapper, the reference it    *)
(* hands to the native core with into_eqs_array, and the callbacks of the  *)
(* eqs_array_t vtable (shape, reshape, swap_axes, create, copy, destroy,   *)
(* move_samples_from).                                                     *)
(*                                                                         *)
(* Arrays are modelled as numpy/torch model them: a view (shape, strides)  *)
(* on a storage buffer of the heap. Two views may share one buffer.        *)
(***************************************************************************)
EXTENDS Integers, Sequences, FiniteSets, TLC

\* ------------------------------------------------------------------ bounds
\* How many ArrayWrapper objects a behaviour creates at most.
MaxWrappers == 3
\* How many calls (host-side or native-side) a behaviour makes at most.
MaxSteps == 4
\* How many times into_eqs_array is called on one wrapper at most.
MaxRefs == 2
\* How many calls a behaviour of SpecLife (reference counting only) makes.
MaxLifeSteps == 6
\* How many calls the threads of a behaviour of SpecThreads begin.
MaxThreadSteps == 5
MaxSharedSteps == 5
MaxGroups == 2

\* ------------------------------------------------------- program constants
\* The status a callback returns when it raised nothing, and when it did.
EQS_SUCCESS == 0
EQS_CALLBACK_ERROR == 1
\* The value of the module-level origin caches before the first registration.
None == -1

VARIABLES
    heap,                   \* storage buffers: heap[b] is a sequence of values
    wrappers,               \* the ArrayWrapper objects ever constructed
    host,                   \* host[w]: the host still holds a variable naming wrapper w
    calls,                  \* calls[w]: how often into_eqs_array / destroy ran on w,
                            \* and which call made w (history, not program state)
    _NUMPY_STORAGE_ORIGIN,  \* module-level cache of the numpy origin
    _TORCH_STORAGE_ORIGIN,  \* module-level cache of the torch origin
    registry,               \* the native core's origin registry: names, by tag
    ret,                    \* what the last call returned
    steps,                  \* number of calls made so far
    interp,                 \* the Python interpreter: which thread holds the
                            \* GIL, and where each thread is in its call
    split_call              \* the last call of split / split_block: its
                            \* arguments and what it returned or raised

vars == <<heap, wrappers, host, calls, _NUMPY_STORAGE_ORIGIN,
          _TORCH_STORAGE_ORIGIN, registry, ret, steps, interp, split_call>>

\* ---------------------------------------------------------- shape helpers
RECURSIVE Product(_)
Product(s) == IF s = <<>> THEN 1 ELSE Head(s) * Product(Tail(s))

Last(s) == s[Len(s)]
Front(s) == SubSeq(s, 1, Len(s) - 1)
\* the dimensions between the first (samples) and the last (properties)
Middle(s) == SubSeq(s, 2, Len(s) - 1)

\* strides (in elements) of a freshly allocated C-ordered array of this shape
CStrides(shape) ==
    [i \in 1..Len(shape) |-> Product(SubSeq(shape, i + 1, Len(shape)))]

RECURSIVE Dot(_, _)
Dot(a, b) == IF a = <<>> THEN 0 ELSE Head(a) * Head(b) + Dot(Tail(a), Tail(b))

\* the k-th (0-based) multi-index of a shape in C order
Unravel(k, shape) ==
    [i \in 1..Len(shape) |-> (k \div CStrides(shape)[i]) % shape[i]]

\* all the multi-indices of an array of this shape (0-based, as in the code)
Indices(shape) == {Unravel(k, shape) : k \in 0..(Product(shape) - 1)}

\* the element of view a at multi-index idx, in heap h
Elem(h, a, idx) == h[a.buf][1 + Dot(idx, a.strides)]

\* the elements of view a in C order, as numpy's flat iterator yields them
Flat(h, a) ==
    [k \in 1..Product(a.shape) |-> Elem(h, a, Unravel(k - 1, a.shape))]

\* the values of view a, by multi-index
Values(h, a) == [idx \in Indices(a.shape) |-> Elem(h, a, idx)]

\* numpy's C_CONTIGUOUS flag: dimensions of size one are not looked at
RECURSIVE ContiguousFrom(_, _, _, _)
ContiguousFrom(shape, strides, i, sd) ==
    IF i = 0 THEN TRUE
    ELSE IF shape[i] = 1 THEN ContiguousFrom(shape, strides, i - 1, sd)
    ELSE strides[i] = sd /\ ContiguousFrom(shape, strides, i - 1, sd * shape[i])

c_contiguous(a) == ContiguousFrom(a.shape, a.strides, Len(a.shape), 1)

\* ------------------------------------------------------------ refcounting
\* (variant: the reference is not taken)
Py_IncRef_noop(refcnt) == refcnt
Py_IncRef(refcnt) == refcnt + 1
\* (variant: the reference is given back twice)
Py_DecRef_twice(refcnt) == refcnt - 2
Py_DecRef(refcnt) == refcnt - 1

\* references the native core holds on wrapper w and has not given back
Outstanding(w) == calls[w].into - calls[w].destroy

\* the threads that call into the bridge
Threads == {"t1", "t2"}

\* (variant: the functions are called through a CDLL, which gives up the GIL
\* for the time of the call)
pythonapi_cdll(gil, th) == TRUE
\* ctypes.pythonapi is a PyDLL: its functions run with the GIL held by the
\* thread that calls them
pythonapi(gil, th) == gil = th

\* ------------------------------------------------------- origin registry
\* eqs_register_data_origin of the native core: the name gets the next tag
eqs_register_data_origin(reg, name) == Append(reg, name)

_register_origin(reg, name) ==
    [registry |-> eqs_register_data_origin(reg, name),
     origin |-> Len(eqs_register_data_origin(reg, name))]

_is_numpy_array(array) == array.kind = "numpy"
_is_torch_array(array) == array.kind = "torch"

\* catch_exceptions: a callback's exception (or "" for none) as a status
catch_exceptions(exc) == IF exc = "" THEN EQS_SUCCESS ELSE EQS_CALLBACK_ERROR

\* --------------------------------------------------- the array library
\* ndarray.reshape / Tensor.reshape. A reshape keeps the elements in C order;
\* it returns a view on the same buffer when the strides allow it and a copy
\* in a new buffer otherwise.
KeptAxes(shape) ==
    SelectSeq([i \in 1..Len(shape) |-> i], LAMBDA i : shape[i] # 1)

RECURSIVE GroupEnd(_, _, _, _, _, _)
GroupEnd(od, nd, oj, nj, op, np) ==
    IF np = op THEN [oj |-> oj, nj |-> nj]
    ELSE IF np < op THEN GroupEnd(od, nd, oj, nj + 1, op, np * nd[nj + 1])
    ELSE GroupEnd(od, nd, oj + 1, nj, op * od[oj + 1], np)

RECURSIVE NoCopyStrides(_, _, _, _, _, _)
NoCopyStrides(od, os, nd, oi, ni, acc) ==
    IF ni > Len(nd) \/ oi > Len(od)
    THEN LET last == IF ni > 1 THEN acc[ni - 1] ELSE 1
         IN  [ok |-> TRUE,
              strides |-> acc \o [k \in 1..(Len(nd) - ni + 1) |-> last]]
    ELSE LET g == GroupEnd(od, nd, oi, ni, od[oi], nd[ni])
             fits == \A ok \in oi..(g.oj - 1) : os[ok] = od[ok + 1] * os[ok + 1]
             grp == [k \in 1..(g.nj - ni + 1) |->
                        os[g.oj] * Product(SubSeq(nd, ni + k, g.nj))]
         IN  IF ~fits THEN [ok |-> FALSE, strides |-> <<>>]
             ELSE NoCopyStrides(od, os, nd, g.oj + 1, g.nj + 1, acc \o grp)

np_reshape(h, a, shape) ==
    IF Product(shape) # Product(a.shape)
    THEN [exc |-> "ValueError", array |-> a, heap |-> h]
    ELSE IF c_contiguous(a)
    THEN [exc |-> "", heap |-> h,
          array |-> [a EXCEPT !.shape = shape, !.strides = CStrides(shape)]]
    ELSE LET kept == KeptAxes(a.shape)
             od == [k \in 1..Len(kept) |-> a.shape[kept[k]]]
             os == [k \in 1..Len(kept) |-> a.strides[kept[k]]]
             nc == NoCopyStrides(od, os, shape, 1, 1, <<>>)
         IN  IF nc.ok
             THEN [exc |-> "", heap |-> h,
                   array |-> [a EXCEPT !.shape = shape, !.strides = nc.strides]]
             ELSE [exc |-> "", heap |-> Append(h, Flat(h, a)),
                   array |-> [a EXCEPT !.buf = Len(h) + 1, !.shape = shape,
                                       !.strides = CStrides(shape)]]

\* exchange the entries at (0-based) positions i and j of a sequence
SwapSeq(s, i, j) ==
    [k \in 1..Len(s) |-> IF k = i + 1 THEN s[j + 1]
                         ELSE IF k = j + 1 THEN s[i + 1] ELSE s[k]]

\* (variant: np.moveaxis, axis_1 is taken out and put back at position axis_2)
np_swapaxes_moveaxis(a, axis_1, axis_2) ==
    LET MoveSeq(s) ==
            [k \in 1..Len(s) |->
                IF k = axis_2 + 1 THEN s[axis_1 + 1]
                ELSE IF axis_1 < axis_2 /\ k > axis_1 /\ k <= axis_2 THEN s[k + 1]
                ELSE IF axis_2 < axis_1 /\ k > axis_2 + 1 /\ k <= axis_1 + 1
                     THEN s[k - 1]
                ELSE s[k]]
    IN  IF axis_1 >= Len(a.shape) \/ axis_2 >= Len(a.shape)
        THEN [exc |-> "AxisError", array |-> a]
        ELSE [exc |-> "",
              array |-> [a EXCEPT !.shape = MoveSeq(a.shape),
                                  !.strides = MoveSeq(a.strides)]]
\* (variant: the sizes are exchanged as a reshape would, the elements stay in
\* C order)
np_swapaxes_as_reshape(a, axis_1, axis_2) ==
    IF axis_1 >= Len(a.shape) \/ axis_2 >= Len(a.shape)
    THEN [exc |-> "AxisError", array |-> a]
    ELSE [exc |-> "",
          array |-> [a EXCEPT !.shape = SwapSeq(a.shape, axis_1, axis_2),
                              !.strides = CStrides(SwapSeq(a.shape, axis_1,
                                                           axis_2))]]
\* ndarray.swapaxes / Tensor.swapaxes: a view with two axes exchanged
np_swapaxes(a, axis_1, axis_2) ==
    IF axis_1 >= Len(a.shape) \/ axis_2 >= Len(a.shape)
    THEN [exc |-> "AxisError", array |-> a]
    ELSE [exc |-> "",
          array |-> [a EXCEPT !.shape = SwapSeq(a.shape, axis_1, axis_2),
                              !.strides = SwapSeq(a.strides, axis_1, axis_2)]]

\* np.zeros / torch.zeros: a new buffer of zeros
np_zeros(h, shape, like) ==
    [heap |-> Append(h, [k \in 1..Product(shape) |-> 0]),
     array |-> [kind |-> like.kind, dtype |-> like.dtype, device |-> like.device,
                buf |-> Len(h) + 1, shape |-> shape, strides |-> CStrides(shape)]]

\* ndarray.copy (a new C-ordered buffer) / Tensor.clone (a new buffer, same
\* strides: the views of this model are dense)
np_copy(h, a) ==
    IF _is_numpy_array(a)
    THEN [heap |-> Append(h, Flat(h, a)),
          array |-> [a EXCEPT !.buf = Len(h) + 1, !.strides = CStrides(a.shape)]]
    ELSE [heap |-> Append(h, h[a.buf]),
          array |-> [a EXCEPT !.buf = Len(h) + 1]]

Min(a, b) == IF a < b THEN a ELSE b

\* whether a value of shape src can be assigned to a target of shape dst:
\* aligned on the right, every size equal or one; extra leading sizes one
Broadcastable(src, dst) ==
    LET off == Len(dst) - Len(src)
    IN  \A j \in 1..Len(src) :
            IF j + off < 1 THEN src[j] = 1 ELSE src[j] \in {1, dst[j + off]}

\* the index into the value (shape src) that target index idx reads
BroadcastIndex(src, dst, idx) ==
    LET off == Len(dst) - Len(src)
    IN  [j \in 1..Len(src) |->
            IF j + off < 1 \/ src[j] = 1 THEN 0 ELSE idx[j + off]]

\* output[output_samples, ..., start:end] = input[input_samples, ..., :]
\* The right-hand side is read (a copy) before anything is written, and the
\* shapes are checked before anything is written; the rows are written in
\* the order of the mapping. numpy checks every index of the left-hand side
\* before it writes the first element; torch checks each index when it gets
\* to it, inside the loop that writes, so the rows before the first index
\* out of range are written when it raises.
RECURSIVE AssignRows(_, _, _, _, _, _, _, _)
AssignRows(buf, output, samples, lo, lhsShape, rhsShape, rhs, k) ==
    IF k > Len(samples) THEN buf
    ELSE LET rest == Indices(Tail(lhsShape))
             pos(t) == 1 + Dot(<<samples[k].output>> \o Front(t) \o <<lo + Last(t)>>,
                               output.strides)
             new == [p \in 1..Len(buf) |->
                       IF \E t \in rest : pos(t) = p
                       THEN LET t == CHOOSE t \in rest : pos(t) = p
                            IN  rhs[BroadcastIndex(rhsShape, lhsShape, <<k - 1>> \o t)]
                       ELSE buf[p]]
         IN  AssignRows(new, output, samples, lo, lhsShape, rhsShape, rhs, k + 1)

np_move_samples(h, output, input, samples, property_start, property_end) ==
    IF Len(input.shape) < 2 \/ Len(output.shape) < 2
    THEN [exc |-> "IndexError", heap |-> h]
    ELSE IF \E k \in 1..Len(samples) : samples[k].input >= input.shape[1]
    THEN [exc |-> "IndexError", heap |-> h]
    ELSE IF /\ _is_numpy_array(output)
            /\ \E k \in 1..Len(samples) : samples[k].output >= output.shape[1]
    THEN [exc |-> "IndexError", heap |-> h]
    ELSE LET n == Len(samples)
             bad == {k \in 1..n : samples[k].output >= output.shape[1]}
             written == IF bad = {} THEN samples
                        ELSE SubSeq(samples, 1,
                                    (CHOOSE k \in bad : \A j \in bad : k <= j) - 1)
             W == Last(output.shape)
             lo == Min(property_start, W)
             hi == Min(property_end, W)
             width == IF hi > lo THEN hi - lo ELSE 0
             rhsShape == <<n>> \o Tail(input.shape)
             lhsShape == <<n>> \o Middle(output.shape) \o <<width>>
             rhs == [idx \in Indices(rhsShape) |->
                        Elem(h, input, <<samples[idx[1] + 1].input>> \o Tail(idx))]
         IN  IF ~Broadcastable(rhsShape, lhsShape)
             THEN [exc |-> "ValueError", heap |-> h]
             ELSE [exc |-> IF bad = {} THEN "" ELSE "IndexError",
                   heap |-> [h EXCEPT ![output.buf] =
                               AssignRows(@, output, written, lo, lhsShape,
                                          rhsShape, rhs, 1)]]

\* ------------------------------------------------------------- inputs
\* the arrays the host wraps: backend kind, element type, device
Backends ==
    {[kind |-> "numpy", dtype |-> "float64", device |-> "cpu"],
     [kind |-> "numpy", dtype |-> "float32", device |-> "cpu"],
     [kind |-> "torch", dtype |-> "float64", device |-> "cpu"]}
\* ... and their shapes; a wrapped array holds 1, 2, 3, ... in C order
WrapShapes == {<<2, 2, 2>>, <<1, 2, 1>>, <<2, 2>>}
\* the shapes the native core asks for in reshape and create
ReqShapes == {<<4, 2>>, <<2, 2>>, <<1, 2, 1>>, <<1, 1, 2>>, <<2>>}
\* the axes it passes to swap_axes
Axes == 0..2
\* the sample mappings and property ranges it passes to move_samples_from
Mapping(i, o) == [input |-> i, output |-> o]
Mappings ==
    {<<Mapping(0, 1)>>, <<Mapping(0, 0)>>, <<Mapping(0, 0), Mapping(1, 1)>>,
     <<Mapping(0, 1), Mapping(1, 1)>>, <<Mapping(0, 2)>>}
Ranges == {<<0, 1>>, <<0, 2>>, <<1, 2>>, <<1, 3>>}

\* a tensor on a device other than the CPU (array.py line 131)
DeviceBackends == {[kind |-> "torch", dtype |-> "float64", device |-> "cuda"]}
\* objects that are neither a numpy array nor a torch tensor: one that has
\* no shape attribute (a list), one that has (a data frame)
UnknownObjects ==
    {[kind |-> "list"], [kind |-> "DataFrame", shape |-> <<2, 2>>]}
\* the shapes, request shapes, mappings and ranges of SpecBridge
BridgeShapes == {<<2, 2, 2>>, <<2, 1>>}
BridgeReqShapes == {<<4, 2>>, <<1, 2>>, <<2>>}
BridgeMappings == {<<Mapping(0, 1)>>, <<Mapping(0, 0)>>}
BridgeRanges == {<<0, 1>>, <<0, 2>>}
\* the mappings of SpecShared: one more, whose second output sample is out
\* of range for an array of two samples
SharedMappings == BridgeMappings \cup {<<Mapping(0, 1), Mapping(0, 2)>>}

Wrappers == 1..Len(wrappers)
\* the tokens the native core holds: it calls the vtable only on these (it
\* has no other pointer to call through, and a destroy beyond the references
\* it holds is excluded by the contract of destroy)
Tokens == {w \in Wrappers : Outstanding(w) > 0}

\* ---------------------------------------------------------- ArrayWrapper
\* _origin_numpy / _origin_pytorch: register on the first call, then cached
\* (variant: the name is registered at every call)
_origin_numpy_uncached ==
    _register_origin(registry, "equistore.data.array.numpy")
_origin_numpy ==
    IF _NUMPY_STORAGE_ORIGIN = None
    THEN _register_origin(registry, "equistore.data.array.numpy")
    ELSE [registry |-> registry, origin |-> _NUMPY_STORAGE_ORIGIN]

\* (variant: the torch origin is registered under the name of numpy's)
_origin_pytorch_numpy_name ==
    IF _TORCH_STORAGE_ORIGIN = None
    THEN _register_origin(registry, "equistore.data.array.numpy")
    ELSE [registry |-> registry, origin |-> _TORCH_STORAGE_ORIGIN]
_origin_pytorch ==
    IF _TORCH_STORAGE_ORIGIN = None
    THEN _register_origin(registry, "equistore.data.array.torch")
    ELSE [registry |-> registry, origin |-> _TORCH_STORAGE_ORIGIN]

\* (variant: the sizes are cached last dimension first)
ArrayWrapper_reversed_shape(array) ==
    [array |-> array,
     _shape |-> [k \in 1..Len(array.shape) |->
                    array.shape[Len(array.shape) + 1 - k]],
     origin |-> IF _is_numpy_array(array) THEN _origin_numpy.origin
                ELSE _origin_pytorch.origin,
     ob_refcnt |-> 1,
     collected |-> FALSE]
\* ArrayWrapper.__init__ on a numpy or torch array: the new object, which the
\* caller's variable references (ob_refcnt 1). ob_refcnt counts the references
\* from outside the object: the one eqs_array.ptr keeps on self (line 73) is
\* part of a cycle, which is why the object goes at a collection (GcCollect)
\* and not at the moment the count falls to zero.
ArrayWrapper(array) ==
    [array |-> array,
     _shape |-> array.shape,
     origin |-> IF _is_numpy_array(array) THEN _origin_numpy.origin
                ELSE _origin_pytorch.origin,
     ob_refcnt |-> 1,
     collected |-> FALSE]

\* the exception ArrayWrapper.__init__ raises on an object ("" for none):
\* line 62 reads its shape before lines 64-69 look at its type
ArrayWrapper_exc(obj) ==
    IF "shape" \notin DOMAIN obj THEN "AttributeError"
    ELSE IF _is_numpy_array(obj) \/ _is_torch_array(obj) THEN ""
    ELSE "ValueError"

\* the module-level state after ArrayWrapper.__init__ ran on array
OriginsAfter(array) ==
    IF _is_numpy_array(array)
    THEN /\ _NUMPY_STORAGE_ORIGIN' = _origin_numpy.origin
         /\ registry' = _origin_numpy.registry
         /\ UNCHANGED _TORCH_STORAGE_ORIGIN
    ELSE /\ _TORCH_STORAGE_ORIGIN' = _origin_pytorch.origin
         /\ registry' = _origin_pytorch.registry
         /\ UNCHANGED _NUMPY_STORAGE_ORIGIN

\* ArrayWrapper.into_eqs_array: one more reference to the wrapper object
into_eqs_array(wrapper) == [wrapper EXCEPT !.ob_refcnt = Py_IncRef(@)]

\* a local variable naming the wrapper goes out of scope
DropLocal(wrapper) == [wrapper EXCEPT !.ob_refcnt = @ - 1]

Return(op, this, exc, out) ==
    [op |-> op, this |-> this, status |-> catch_exceptions(exc), out |-> out]

\* what the caller of a host-side call gets when the call raised: no result,
\* no status, the exception
Raised(op, exc) == [op |-> op, this |-> 0, status |-> None, out |-> <<exc>>]

\* one more call, of at most max in a behaviour, made in one piece by the
\* thread that holds the GIL
Call(max, A) == steps < max /\ steps' = steps + 1 /\ A /\ UNCHANGED <<interp, split_call>>

\* ------------------------------------------------------------ host calls
\* wrapper = ArrayWrapper(array), on a new array of the host
Wrap(backend, shape) ==
    /\ Len(wrappers) < MaxWrappers
    /\ LET array == [kind |-> backend.kind, dtype |-> backend.dtype,
                     device |-> backend.device, buf |-> Len(heap) + 1,
                     shape |-> shape, strides |-> CStrides(shape)]
       IN  /\ heap' = Append(heap, [k \in 1..Product(shape) |-> k])
           /\ wrappers' = Append(wrappers, ArrayWrapper(array))
           /\ OriginsAfter(array)
    /\ host' = Append(host, TRUE)
    /\ calls' = Append(calls, [into |-> 0, destroy |-> 0, made_by |-> "host",
                               parent |-> 0])
    /\ ret' = [op |-> "ArrayWrapper", this |-> Len(wrappers) + 1,
               status |-> EQS_SUCCESS, out |-> <<>>]

\* ArrayWrapper(obj) on an object of another type: the constructor raises,
\* the half-built object is dropped, nothing was registered
WrapUnknown(obj) ==
    /\ ArrayWrapper_exc(obj) # ""
    /\ ret' = Raised("ArrayWrapper", ArrayWrapper_exc(obj))
    /\ UNCHANGED <<heap, wrappers, host, calls, _NUMPY_STORAGE_ORIGIN,
                   _TORCH_STORAGE_ORIGIN, registry>>

\* ArrayWrapper(array) once more on the array the host wrapped as w. No
\* reference to w was handed out yet, so that wrappers[w].array still is the
\* host's array object (reshape and swap_axes replace it by a new view).
WrapAgain(w) ==
    /\ Len(wrappers) < MaxWrappers
    /\ host[w] /\ calls[w].made_by = "host" /\ calls[w].into = 0
    /\ wrappers' = Append(wrappers, ArrayWrapper(wrappers[w].array))
    /\ OriginsAfter(wrappers[w].array)
    /\ host' = Append(host, TRUE)
    /\ calls' = Append(calls, [into |-> 0, destroy |-> 0, made_by |-> "host",
                               parent |-> w])
    /\ ret' = [op |-> "ArrayWrapper", this |-> Len(wrappers) + 1,
               status |-> EQS_SUCCESS, out |-> <<>>]
    /\ UNCHANGED heap

\* wrapper.into_eqs_array(), the result handed to the native core
IntoEqsArray(w) ==
    /\ host[w] /\ ~wrappers[w].collected
    /\ calls[w].into < MaxRefs
    /\ wrappers' = [wrappers EXCEPT ![w] = into_eqs_array(@)]
    /\ calls' = [calls EXCEPT ![w].into = @ + 1]
    /\ ret' = [op |-> "into_eqs_array", this |-> w, status |-> EQS_SUCCESS,
               out |-> <<w>>]
    /\ UNCHANGED <<heap, host, _NUMPY_STORAGE_ORIGIN, _TORCH_STORAGE_ORIGIN,
                   registry>>

\* del wrapper: the host drops its variable
DelWrapper(w) ==
    /\ host[w]
    /\ host' = [host EXCEPT ![w] = FALSE]
    /\ wrappers' = [wrappers EXCEPT ![w] = DropLocal(@)]
    /\ ret' = [op |-> "del", this |-> w, status |-> EQS_SUCCESS, out |-> <<>>]
    /\ UNCHANGED <<heap, calls, _NUMPY_STORAGE_ORIGIN, _TORCH_STORAGE_ORIGIN,
                   registry>>

\* the Python runtime frees the wrappers nothing references any more
Collectible(w) == ~wrappers[w].collected /\ wrappers[w].ob_refcnt <= 0

GcCollect ==
    /\ \E w \in Wrappers : Collectible(w)
    /\ wrappers' = [w \in Wrappers |->
                      IF Collectible(w) THEN [wrappers[w] EXCEPT !.collected = TRUE]
                      ELSE wrappers[w]]
    /\ ret' = [op |-> "gc", this |-> 0, status |-> EQS_SUCCESS, out |-> <<>>]
    /\ UNCHANGED <<heap, host, calls, _NUMPY_STORAGE_ORIGIN,
                   _TORCH_STORAGE_ORIGIN, registry, steps, interp, split_call>>

\* ------------------------------------------------- the vtable callbacks
\* Each callback is given as a function of the heap and of the wrapper that
\* `this` points to, followed by the action of the native core calling it.

\* eqs_array_origin, the closure of ArrayWrapper.__init__: it writes the
\* origin looked up when the wrapper was built
eqs_array_origin(wrapper) == [exc |-> "", origin |-> <<wrapper.origin>>]

Origin(this) ==
    /\ LET r == eqs_array_origin(wrappers[this])
       IN  ret' = Return("origin", this, r.exc, r.origin)
    /\ UNCHANGED <<heap, wrappers, host, calls, _NUMPY_STORAGE_ORIGIN,
                   _TORCH_STORAGE_ORIGIN, registry>>

\* (variant: the contiguity of the array is not looked at)
_eqs_array_data_any_layout(wrapper) ==
    LET array == wrapper.array
    IN  IF _is_torch_array(array) /\ array.device # "cpu"
        THEN [exc |-> "ValueError: can only get data pointer for tensors on CPU",
              data |-> <<>>]
        ELSE IF array.dtype # "float64"
        THEN [exc |-> "ValueError: can not get data pointer for array type",
              data |-> <<>>]
        ELSE [exc |-> "", data |-> <<array.buf>>]
\* _eqs_array_data: the address of the first element of the array, which for
\* a tensor is the address of the storage Tensor.numpy() shares with it.
\* data[0] is written by the last statement only.
_eqs_array_data(wrapper) ==
    LET array == wrapper.array
    IN  IF _is_torch_array(array) /\ array.device # "cpu"
        THEN [exc |-> "ValueError: can only get data pointer for tensors on CPU",
              data |-> <<>>]
        ELSE IF ~c_contiguous(array)
        THEN [exc |-> "ValueError: can not get data pointer for non contiguous array",
              data |-> <<>>]
        ELSE IF array.dtype # "float64"
        THEN [exc |-> "ValueError: can not get data pointer for array type",
              data |-> <<>>]
        ELSE [exc |-> "", data |-> <<array.buf>>]

\* (variant: an array that is not contiguous is replaced by a contiguous
\* copy, and the pointer to the copy returned)
Data_make_contiguous(this) ==
    /\ LET wrapper == wrappers[this]
           c == np_copy(heap, [wrapper.array EXCEPT !.kind = "numpy"])
           fixed == [wrapper EXCEPT !.array.buf = c.array.buf,
                                    !.array.strides = c.array.strides]
           r == _eqs_array_data(fixed)
       IN  /\ heap' = c.heap
           /\ wrappers' = [wrappers EXCEPT ![this] = fixed]
           /\ ret' = Return("data", this, r.exc, r.data)
    /\ UNCHANGED <<host, calls, _NUMPY_STORAGE_ORIGIN, _TORCH_STORAGE_ORIGIN,
                   registry>>
Data(this) ==
    /\ LET r == _eqs_array_data(wrappers[this])
       IN  ret' = Return("data", this, r.exc, r.data)
    /\ UNCHANGED <<heap, wrappers, host, calls, _NUMPY_STORAGE_ORIGIN,
                   _TORCH_STORAGE_ORIGIN, registry>>

\* _eqs_array_shape
_eqs_array_shape(wrapper) == [exc |-> "", shape |-> wrapper._shape]

Shape(this) ==
    /\ LET r == _eqs_array_shape(wrappers[this])
       IN  ret' = Return("shape", this, r.exc, r.shape)
    /\ UNCHANGED <<heap, wrappers, host, calls, _NUMPY_STORAGE_ORIGIN,
                   _TORCH_STORAGE_ORIGIN, registry>>

\* (variant: the cached shape is not updated)
_eqs_array_reshape_stale_cache(h, wrapper, shape) ==
    LET r == np_reshape(h, wrapper.array, shape)
    IN  IF r.exc # "" THEN [exc |-> r.exc, heap |-> h, wrapper |-> wrapper]
        ELSE [exc |-> "", heap |-> r.heap,
              wrapper |-> [wrapper EXCEPT !.array = r.array]]
\* (variant: the cached shape is updated before reshape is tried)
_eqs_array_reshape_cache_first(h, wrapper, shape) ==
    LET r == np_reshape(h, wrapper.array, shape)
    IN  IF r.exc # ""
        THEN [exc |-> r.exc, heap |-> h,
              wrapper |-> [wrapper EXCEPT !._shape = shape]]
        ELSE [exc |-> "", heap |-> r.heap,
              wrapper |-> [wrapper EXCEPT !.array = r.array, !._shape = shape]]
\* _eqs_array_reshape: the two assignments run only when reshape raised nothing
_eqs_array_reshape(h, wrapper, shape) ==
    LET r == np_reshape(h, wrapper.array, shape)
    IN  IF r.exc # "" THEN [exc |-> r.exc, heap |-> h, wrapper |-> wrapper]
        ELSE [exc |-> "", heap |-> r.heap,
              wrapper |-> [wrapper EXCEPT !.array = r.array, !._shape = shape]]

\* (variant: the callback is not wrapped in catch_exceptions, what reshape
\* raises leaves it)
Reshape_undecorated(this, shape) ==
    /\ LET r == _eqs_array_reshape(heap, wrappers[this], shape)
       IN  /\ heap' = r.heap
           /\ wrappers' = [wrappers EXCEPT ![this] = r.wrapper]
           /\ ret' = IF r.exc = "" THEN Return("reshape", this, r.exc, <<>>)
                     ELSE Raised("reshape", r.exc)
    /\ UNCHANGED <<host, calls, _NUMPY_STORAGE_ORIGIN, _TORCH_STORAGE_ORIGIN,
                   registry>>
Reshape(this, shape) ==
    /\ LET r == _eqs_array_reshape(heap, wrappers[this], shape)
       IN  /\ heap' = r.heap
           /\ wrappers' = [wrappers EXCEPT ![this] = r.wrapper]
           /\ ret' = Return("reshape", this, r.exc, <<>>)
    /\ UNCHANGED <<host, calls, _NUMPY_STORAGE_ORIGIN, _TORCH_STORAGE_ORIGIN,
                   registry>>

\* (variant: the cached shape is not read back)
_eqs_array_swap_axes_stale_cache(wrapper, axis_1, axis_2) ==
    LET r == np_swapaxes(wrapper.array, axis_1, axis_2)
    IN  IF r.exc # "" THEN [exc |-> r.exc, wrapper |-> wrapper]
        ELSE [exc |-> "", wrapper |-> [wrapper EXCEPT !.array = r.array]]
\* _eqs_array_swap_axes: the cached shape is read back from the new array
_eqs_array_swap_axes(wrapper, axis_1, axis_2) ==
    LET r == np_swapaxes(wrapper.array, axis_1, axis_2)
    IN  IF r.exc # "" THEN [exc |-> r.exc, wrapper |-> wrapper]
        ELSE [exc |-> "",
              wrapper |-> [wrapper EXCEPT !.array = r.array,
                                          !._shape = r.array.shape]]

SwapAxes(this, axis_1, axis_2) ==
    /\ LET r == _eqs_array_swap_axes(wrappers[this], axis_1, axis_2)
       IN  /\ wrappers' = [wrappers EXCEPT ![this] = r.wrapper]
           /\ ret' = Return("swap_axes", this, r.exc, <<>>)
    /\ UNCHANGED <<heap, host, calls, _NUMPY_STORAGE_ORIGIN,
                   _TORCH_STORAGE_ORIGIN, registry>>

\* (variant: zeros of the default element type)
_eqs_array_create_default_dtype(h, wrapper, shape) ==
    LET z == np_zeros(h, shape, [wrapper.array EXCEPT !.dtype = "float64"])
    IN  [exc |-> "", heap |-> z.heap,
         new_wrapper |-> DropLocal(into_eqs_array(ArrayWrapper(z.array)))]
\* _eqs_array_create: zeros of the dtype (and device) of this, wrapped; the
\* native core gets the one reference into_eqs_array took, the local variable
\* new_wrapper is gone when the callback returns
_eqs_array_create(h, wrapper, shape) ==
    LET z == np_zeros(h, shape, wrapper.array)
    IN  [exc |-> "", heap |-> z.heap,
         new_wrapper |-> DropLocal(into_eqs_array(ArrayWrapper(z.array)))]

\* (variant: the new wrapper is returned without into_eqs_array)
_eqs_array_copy_no_ref(h, wrapper) ==
    LET c == np_copy(h, wrapper.array)
    IN  [exc |-> "", heap |-> c.heap,
         new_wrapper |-> DropLocal(ArrayWrapper(c.array))]
\* (variant: the wrapped array is not copied)
_eqs_array_copy_alias(h, wrapper) ==
    [exc |-> "", heap |-> h,
     new_wrapper |-> DropLocal(into_eqs_array(ArrayWrapper(wrapper.array)))]
\* _eqs_array_copy
_eqs_array_copy(h, wrapper) ==
    LET c == np_copy(h, wrapper.array)
    IN  [exc |-> "", heap |-> c.heap,
         new_wrapper |-> DropLocal(into_eqs_array(ArrayWrapper(c.array)))]

\* what create and copy have in common: the new wrapper joins the others
NewHandle(op, this, r) ==
    /\ heap' = r.heap
    /\ wrappers' = Append(wrappers, r.new_wrapper)
    /\ OriginsAfter(r.new_wrapper.array)
    /\ host' = Append(host, FALSE)
    /\ calls' = Append(calls, [into |-> 1, destroy |-> 0, made_by |-> op,
                               parent |-> this])
    /\ ret' = Return(op, this, r.exc, <<Len(wrappers) + 1>>)

Create(this, shape) ==
    /\ Len(wrappers) < MaxWrappers
    /\ NewHandle("create", this, _eqs_array_create(heap, wrappers[this], shape))

Copy(this) ==
    /\ Len(wrappers) < MaxWrappers
    /\ NewHandle("copy", this, _eqs_array_copy(heap, wrappers[this]))

\* (variant: destroy frees the wrapper whatever its count)
_eqs_array_destroy_free(wrapper) == [wrapper EXCEPT !.ob_refcnt = 0]
\* _eqs_array_destroy
_eqs_array_destroy(wrapper) == [wrapper EXCEPT !.ob_refcnt = Py_DecRef(@)]

Destroy(this) ==
    /\ wrappers' = [wrappers EXCEPT ![this] = _eqs_array_destroy(@)]
    /\ calls' = [calls EXCEPT ![this].destroy = @ + 1]
    /\ ret' = Return("destroy", this, "", <<>>)
    /\ UNCHANGED <<heap, host, _NUMPY_STORAGE_ORIGIN, _TORCH_STORAGE_ORIGIN,
                   registry>>

\* (variant: the input and output sample indices are exchanged)
_eqs_array_move_samples_from_swapped(h, this, input, samples, property_start, property_end) ==
    np_move_samples(h, this.array, input.array,
                    [k \in 1..Len(samples) |->
                        Mapping(samples[k].output, samples[k].input)],
                    property_start, property_end)
\* _eqs_array_move_samples_from
_eqs_array_move_samples_from(h, this, input, samples, property_start, property_end) ==
    np_move_samples(h, this.array, input.array, samples, property_start,
                    property_end)

\* (variant: the input is made contiguous first, and keeps the copy)
MoveSamplesFrom_detach_input(this, input, samples, range) ==
    /\ LET c == np_copy(heap, [wrappers[input].array EXCEPT !.kind = "numpy"])
           detached == [wrappers[input] EXCEPT !.array.buf = c.array.buf,
                                               !.array.strides = c.array.strides]
           r == _eqs_array_move_samples_from(c.heap, wrappers[this], detached,
                                             samples, range[1], range[2])
       IN  /\ heap' = r.heap
           /\ wrappers' = [wrappers EXCEPT ![input] = detached]
           /\ ret' = Return("move_samples_from", this, r.exc, <<>>)
    /\ UNCHANGED <<host, calls, _NUMPY_STORAGE_ORIGIN, _TORCH_STORAGE_ORIGIN,
                   registry>>
MoveSamplesFrom(this, input, samples, range) ==
    /\ LET r == _eqs_array_move_samples_from(heap, wrappers[this],
                    wrappers[input], samples, range[1], range[2])
       IN  /\ heap' = r.heap
           /\ ret' = Return("move_samples_from", this, r.exc, <<>>)
    /\ UNCHANGED <<wrappers, host, calls, _NUMPY_STORAGE_ORIGIN,
                   _TORCH_STORAGE_ORIGIN, registry>>

\* ------------------------------------------------------------- threads
\* into_eqs_array and the destroy callback, called by several threads. A
\* thread runs Python code (the body of into_eqs_array, the body of a ctypes
\* callback) only while it holds the GIL, and the interpreter may make it
\* give the GIL up between two bytecodes. Py_IncRef and Py_DecRef read the
\* count and then write it back (ob_refcnt++ / --ob_refcnt, no atomic
\* instruction).

\* the threads that are inside a call on wrapper w, at one of these places
InFlight(w, places) ==
    {th \in Threads : interp.this[th] = w /\ interp.pc[th] \in places}

\* one more call begun by a thread
ThreadCall(max, A) == steps < max /\ steps' = steps + 1 /\ A /\ UNCHANGED split_call

\* a thread calls wrapper.into_eqs_array(): it has the GIL and is about to
\* call Py_IncRef (line 111)
ThreadInto(th, w) ==
    /\ interp.pc[th] = "idle" /\ interp.gil = ""
    /\ host[w] /\ ~wrappers[w].collected
    /\ calls[w].into + Cardinality(InFlight(w, {"incref", "incref_store"}))
           < MaxRefs
    /\ interp' = [interp EXCEPT !.gil = th, !.pc[th] = "incref", !.this[th] = w]
    /\ UNCHANGED <<heap, wrappers, host, calls, _NUMPY_STORAGE_ORIGIN,
                   _TORCH_STORAGE_ORIGIN, registry, ret>>

\* a thread calls the destroy callback on a token it holds: the callback
\* takes the GIL and is about to call Py_DecRef (line 213)
ThreadDestroy(th, this) ==
    /\ interp.pc[th] = "idle" /\ interp.gil = ""
    /\ calls' = [calls EXCEPT ![this].destroy = @ + 1]
    /\ interp' = [interp EXCEPT !.gil = th, !.pc[th] = "decref",
                                !.this[th] = this]
    /\ UNCHANGED <<heap, wrappers, host, _NUMPY_STORAGE_ORIGIN,
                   _TORCH_STORAGE_ORIGIN, registry, ret>>

\* the interpreter takes the GIL from a thread between two bytecodes, and
\* gives it back
SwitchOut(th) ==
    /\ interp.pc[th] \in {"incref", "decref"} /\ interp.gil = th
    /\ interp' = [interp EXCEPT !.gil = ""]
    /\ UNCHANGED <<heap, wrappers, host, calls, _NUMPY_STORAGE_ORIGIN,
                   _TORCH_STORAGE_ORIGIN, registry, ret, steps, split_call>>

SwitchIn(th) ==
    /\ interp.pc[th] \in {"incref", "decref"} /\ interp.gil = ""
    /\ interp' = [interp EXCEPT !.gil = th]
    /\ UNCHANGED <<heap, wrappers, host, calls, _NUMPY_STORAGE_ORIGIN,
                   _TORCH_STORAGE_ORIGIN, registry, ret, steps, split_call>>

\* Py_IncRef / Py_DecRef, first half: the count is read
LoadRefcnt(th) ==
    /\ interp.pc[th] \in {"incref", "decref"}
    /\ pythonapi(interp.gil, th)
    /\ interp' = [interp EXCEPT
                      !.pc[th] = IF @ = "incref" THEN "incref_store"
                                 ELSE "decref_store",
                      !.refcnt[th] = wrappers[interp.this[th]].ob_refcnt]
    /\ UNCHANGED <<heap, wrappers, host, calls, _NUMPY_STORAGE_ORIGIN,
                   _TORCH_STORAGE_ORIGIN, registry, ret, steps, split_call>>

\* Py_IncRef / Py_DecRef, second half: the new count is written, the call
\* returns and the thread lets go of the GIL
StoreRefcnt(th) ==
    /\ interp.pc[th] \in {"incref_store", "decref_store"}
    /\ pythonapi(interp.gil, th)
    /\ LET w == interp.this[th]
           inc == interp.pc[th] = "incref_store"
       IN  /\ wrappers' = [wrappers EXCEPT ![w].ob_refcnt =
                              IF inc THEN Py_IncRef(interp.refcnt[th])
                              ELSE Py_DecRef(interp.refcnt[th])]
           /\ calls' = [calls EXCEPT ![w].into = IF inc THEN @ + 1 ELSE @]
           /\ ret' = IF inc
                     THEN [op |-> "into_eqs_array", this |-> w,
                           status |-> EQS_SUCCESS, out |-> <<w>>]
                     ELSE Return("destroy", w, "", <<>>)
    /\ interp' = [interp EXCEPT !.gil = IF @ = th THEN "" ELSE @,
                                !.pc[th] = "idle", !.this[th] = 0,
                                !.refcnt[th] = 0]
    /\ UNCHANGED <<heap, host, _NUMPY_STORAGE_ORIGIN, _TORCH_STORAGE_ORIGIN,
                   registry, steps, split_call>>

\* ---------------------------------------------------------- operations
\* split and split_block (operations/split.py). Python objects are records;
\* the field class is the type isinstance tests.
isinstance(obj, class) == obj.class = class
NoneObject == [class |-> "NoneType"]
str(value) == [class |-> "str", value |-> value]
list(items) == [class |-> "list", items |-> items]
\* Labels: names and one row of values per entry
Labels(names, values) == [class |-> "Labels", names |-> names, values |-> values]
\* TensorBlock: values[i][j] is the value of sample i, property j
TensorBlock(values, samples, properties) ==
    [class |-> "TensorBlock", values |-> values, samples |-> samples,
     properties |-> properties]
\* TensorMap: one block per key
TensorMap(keys, blocks) == [class |-> "TensorMap", keys |-> keys, blocks |-> blocks]
\* tensor[key]: the block of that key
TensorMap_getitem(tensor, key) ==
    tensor.blocks[CHOOSE k \in 1..Len(tensor.blocks) : tensor.keys.values[k] = key]

\* the entries of seq at the positions in kept, in the order of seq
Pick(seq, kept) ==
    [j \in 1..Cardinality(kept) |->
        seq[CHOOSE i \in kept : Cardinality({x \in kept : x < i}) = j - 1]]
\* the positions of the entries of labels whose values for the names of
\* indices are an entry of indices
Selected(labels, indices) ==
    LET column(name) == CHOOSE c \in 1..Len(labels.names) : labels.names[c] = name
        project(row) == [j \in 1..Len(indices.names) |-> row[column(indices.names[j])]]
    IN  {i \in 1..Len(labels.values) :
            \E k \in 1..Len(indices.values) :
                project(labels.values[i]) = indices.values[k]}
\* _slice_block(block, samples=..., properties=...): the block reduced to the
\* samples and properties selected; None selects all
_slice_block(block, samples, properties) ==
    LET rows == IF isinstance(samples, "NoneType")
                THEN 1..Len(block.samples.values)
                ELSE Selected(block.samples, samples)
        cols == IF isinstance(properties, "NoneType")
                THEN 1..Len(block.properties.values)
                ELSE Selected(block.properties, properties)
    IN  TensorBlock([i \in 1..Cardinality(rows) |->
                        Pick(Pick(block.values, rows)[i], cols)],
                    Labels(block.samples.names, Pick(block.samples.values, rows)),
                    Labels(block.properties.names,
                           Pick(block.properties.values, cols)))

\* (variant: each new block is put in front of the list)
_split_block_prepend(block, axis, grouped_idxs) ==
    LET n == Len(grouped_idxs.items)
    IN  [g \in 1..n |->
            IF axis.value = "samples"
            THEN _slice_block(block, grouped_idxs.items[n + 1 - g], NoneObject)
            ELSE _slice_block(block, NoneObject, grouped_idxs.items[n + 1 - g])]
\* _split_block: one slice per group, in the order of grouped_idxs
_split_block(block, axis, grouped_idxs) ==
    [g \in 1..Len(grouped_idxs.items) |->
        IF axis.value = "samples"
        THEN _slice_block(block, grouped_idxs.items[g], NoneObject)
        ELSE _slice_block(block, NoneObject, grouped_idxs.items[g])]

\* (variant: the value of axis is not checked)
_check_args_any_axis(tensor, axis, grouped_idxs) ==
    IF ~isinstance(axis, "str") THEN "TypeError"
    ELSE IF ~isinstance(grouped_idxs, "list") THEN "TypeError"
    ELSE IF Len(grouped_idxs.items) = 0 THEN ""
    ELSE IF \E k \in 1..Len(grouped_idxs.items) :
                ~isinstance(grouped_idxs.items[k], "Labels")
    THEN "TypeError"
    ELSE LET ref_names == grouped_idxs.items[1].names
             block == IF isinstance(tensor, "TensorMap") THEN tensor.blocks[1]
                      ELSE tensor
             names == IF axis.value = "samples" THEN block.samples.names
                      ELSE block.properties.names
         IN  IF \E k \in 2..Len(grouped_idxs.items) :
                    grouped_idxs.items[k].names # ref_names
             THEN "ValueError"
             ELSE IF \E ref_i \in 1..Len(ref_names) :
                        \A c \in 1..Len(names) : names[c] # ref_names[ref_i]
             THEN "ValueError"
             ELSE ""
\* _check_args: the exception it raises, "" when it returns
_check_args(tensor, axis, grouped_idxs) ==
    IF ~isinstance(axis, "str") THEN "TypeError"
    ELSE IF axis.value \notin {"samples", "properties"} THEN "ValueError"
    ELSE IF ~isinstance(grouped_idxs, "list") THEN "TypeError"
    ELSE IF Len(grouped_idxs.items) = 0 THEN ""
    ELSE IF \E k \in 1..Len(grouped_idxs.items) :
                ~isinstance(grouped_idxs.items[k], "Labels")
    THEN "TypeError"
    ELSE LET ref_names == grouped_idxs.items[1].names
             block == IF isinstance(tensor, "TensorMap") THEN tensor.blocks[1]
                      ELSE tensor
             names == IF axis.value = "samples" THEN block.samples.names
                      ELSE block.properties.names
         IN  IF \E k \in 2..Len(grouped_idxs.items) :
                    grouped_idxs.items[k].names # ref_names
             THEN "ValueError"
             ELSE IF \E ref_i \in 1..Len(ref_names) :
                        \A c \in 1..Len(names) : names[c] # ref_names[ref_i]
             THEN "ValueError"
             ELSE ""

\* what a call gives: the exception raised ("" for none), the list returned,
\* and the number of slices made
Outcome(exc, out, sliced) == [exc |-> exc, out |-> out, sliced |-> sliced]

\* split
split(tensor, axis, grouped_idxs) ==
    IF ~isinstance(tensor, "TensorMap") THEN Outcome("TypeError", <<>>, 0)
    ELSE IF _check_args(tensor, axis, grouped_idxs) # ""
    THEN Outcome(_check_args(tensor, axis, grouped_idxs), <<>>, 0)
    ELSE LET keys == tensor.keys.values
             new_blocks(k) ==
                 _split_block(TensorMap_getitem(tensor, keys[k]), axis, grouped_idxs)
             all_new_blocks ==
                 [group_i \in 1..Len(grouped_idxs.items) |->
                     [k \in 1..Len(keys) |-> new_blocks(k)[group_i]]]
         IN  Outcome("",
                     [group_i \in 1..Len(grouped_idxs.items) |->
                         TensorMap(tensor.keys, all_new_blocks[group_i])],
                     Len(keys) * Len(grouped_idxs.items))

\* split_block
split_block(block, axis, grouped_idxs) ==
    IF ~isinstance(block, "TensorBlock") THEN Outcome("TypeError", <<>>, 0)
    ELSE IF _check_args(block, axis, grouped_idxs) # ""
    THEN Outcome(_check_args(block, axis, grouped_idxs), <<>>, 0)
    ELSE Outcome("", _split_block(block, axis, grouped_idxs),
                 Len(grouped_idxs.items))

\* the arguments of the calls: two blocks of samples (structure, center) and
\* properties (n), a tensor of the two, and an array
SplitBlocks ==
    <<TensorBlock(<<<<1, 2>>, <<3, 4>>, <<5, 6>>>>,
                  Labels(<<"structure", "center">>, <<<<0, 0>>, <<0, 1>>, <<1, 0>>>>),
                  Labels(<<"n">>, <<<<0>>, <<1>>>>)),
      TensorBlock(<<<<7, 8>>, <<9, 10>>>>,
                  Labels(<<"structure", "center">>, <<<<1, 0>>, <<2, 0>>>>),
                  Labels(<<"n">>, <<<<0>>, <<1>>>>))>>
SplitTensors ==
    {TensorMap(Labels(<<"species">>, <<<<1>>, <<8>>>>), SplitBlocks),
     SplitBlocks[1], SplitBlocks[2], [class |-> "ndarray"]}
SplitAxes ==
    {str("samples"), str("properties"), str("components"),
     [class |-> "int", value |-> 0]}
\* what grouped_idxs holds: Labels of structures, of properties, of a name
\* no axis has, and an array
GroupItems ==
    {Labels(<<"structure">>, <<<<0>>>>),
     Labels(<<"structure">>, <<<<2>>, <<1>>>>),
     Labels(<<"n">>, <<<<1>>>>),
     Labels(<<"species">>, <<<<1>>>>),
     [class |-> "ndarray"]}
\* grouped_idxs: a list of up to MaxGroups of these, a tuple, one Labels
GroupedIdxs ==
    {list(items) : items \in UNION {[1..n -> GroupItems] : n \in 0..MaxGroups}}
        \cup {[class |-> "tuple", items |-> <<Labels(<<"structure">>, <<<<0>>>>)>>],
              Labels(<<"structure">>, <<<<0>>>>)}

Bridge ==
    <<heap, wrappers, host, calls, _NUMPY_STORAGE_ORIGIN, _TORCH_STORAGE_ORIGIN,
      registry, ret, steps, interp>>

\* a call of split, and one of split_block (the functions keep no state:
\* one call per behaviour)
Split(tensor, axis, grouped_idxs) ==
    /\ split_call.fn = "none"
    /\ split_call' = [fn |-> "split", tensor |-> tensor, axis |-> axis,
                      grouped_idxs |-> grouped_idxs,
                      result |-> split(tensor, axis, grouped_idxs)]
    /\ UNCHANGED Bridge
SplitBlock(block, axis, grouped_idxs) ==
    /\ split_call.fn = "none"
    /\ split_call' = [fn |-> "split_block", tensor |-> block, axis |-> axis,
                      grouped_idxs |-> grouped_idxs,
                      result |-> split_block(block, axis, grouped_idxs)]
    /\ UNCHANGED Bridge

\* ----------------------------------------------------- the specification
Init ==
    /\ heap = <<>>
    /\ wrappers = <<>>
    /\ host = <<>>
    /\ calls = <<>>
    /\ _NUMPY_STORAGE_ORIGIN = None
    /\ _TORCH_STORAGE_ORIGIN = None
    /\ registry = <<>>
    /\ ret = [op |-> "init", this |-> 0, status |-> EQS_SUCCESS, out |-> <<>>]
    /\ steps = 0
    /\ interp = [gil |-> "", pc |-> [th \in Threads |-> "idle"],
                 this |-> [th \in Threads |-> 0],
                 refcnt |-> [th \in Threads |-> 0]]
    /\ split_call = [fn |-> "none"]

Next ==
    \/ \E b \in Backends, s \in WrapShapes : Call(MaxSteps, Wrap(b, s))
    \/ \E w \in Wrappers : Call(MaxSteps, IntoEqsArray(w))
    \/ \E w \in Wrappers : Call(MaxSteps, DelWrapper(w))
    \/ GcCollect
    \/ \E t \in Tokens : Call(MaxSteps, Shape(t))
    \/ \E t \in Tokens, s \in ReqShapes : Call(MaxSteps, Reshape(t, s))
    \/ \E t \in Tokens, i \in Axes, j \in Axes : Call(MaxSteps, SwapAxes(t, i, j))
    \/ \E t \in Tokens, s \in ReqShapes : Call(MaxSteps, Create(t, s))
    \/ \E t \in Tokens : Call(MaxSteps, Copy(t))
    \/ \E t \in Tokens : Call(MaxSteps, Destroy(t))
    \/ \E t \in Tokens, i \in Tokens, m \in Mappings, r \in Ranges :
           Call(MaxSteps, MoveSamplesFrom(t, i, m, r))

Spec == Init /\ [][Next]_vars

\* The reference counting alone, followed further: the host wraps arrays of
\* one shape, the native core creates, copies, reads and destroys.
LifeBackends == {b \in Backends : b.dtype = "float64"}

NextLife ==
    \/ \E b \in LifeBackends : Call(MaxLifeSteps, Wrap(b, <<2, 2>>))
    \/ \E w \in Wrappers : Call(MaxLifeSteps, IntoEqsArray(w))
    \/ \E w \in Wrappers : Call(MaxLifeSteps, DelWrapper(w))
    \/ GcCollect
    \/ \E t \in Tokens : Call(MaxLifeSteps, Shape(t))
    \/ \E t \in Tokens : Call(MaxLifeSteps, Create(t, <<2>>))
    \/ \E t \in Tokens : Call(MaxLifeSteps, Copy(t))
    \/ \E t \in Tokens : Call(MaxLifeSteps, Destroy(t))

SpecLife == Init /\ [][NextLife]_vars

\* The whole bridge as the native core sees it: every entry of the vtable,
\* arrays on every device, objects ArrayWrapper does not know, and an array
\* wrapped twice. The host keeps its wrappers.
NextBridge ==
    \/ \E b \in Backends \cup DeviceBackends, s \in BridgeShapes :
           Call(MaxSteps, Wrap(b, s))
    \/ \E o \in UnknownObjects : Call(MaxSteps, WrapUnknown(o))
    \/ \E w \in Wrappers : Call(MaxSteps, WrapAgain(w))
    \/ \E w \in Wrappers : Call(MaxSteps, IntoEqsArray(w))
    \/ \E t \in Tokens : Call(MaxSteps, Origin(t))
    \/ \E t \in Tokens : Call(MaxSteps, Data(t))
    \/ \E t \in Tokens : Call(MaxSteps, Shape(t))
    \/ \E t \in Tokens, s \in BridgeReqShapes : Call(MaxSteps, Reshape(t, s))
    \/ \E t \in Tokens, i \in Axes, j \in Axes : Call(MaxSteps, SwapAxes(t, i, j))
    \/ \E t \in Tokens, s \in BridgeReqShapes : Call(MaxSteps, Create(t, s))
    \/ \E t \in Tokens : Call(MaxSteps, Copy(t))
    \/ \E t \in Tokens : Call(MaxSteps, Destroy(t))
    \/ \E t \in Tokens, i \in Tokens, m \in BridgeMappings, r \in BridgeRanges :
           Call(MaxSteps, MoveSamplesFrom(t, i, m, r))

SpecBridge == Init /\ [][NextBridge]_vars

\* One array behind several handles: the host wraps an array, wraps it
\* again, hands the wrappers to the native core, which moves samples
\* between the handles and asks for their shape.
NextShared ==
    \/ \E b \in LifeBackends : Call(MaxSharedSteps, Wrap(b, <<2, 1>>))
    \/ \E w \in Wrappers : Call(MaxSharedSteps, WrapAgain(w))
    \/ \E w \in Wrappers : Call(MaxSharedSteps, IntoEqsArray(w))
    \/ \E t \in Tokens : Call(MaxSharedSteps, Shape(t))
    \/ \E t \in Tokens, i \in Tokens, m \in SharedMappings, r \in BridgeRanges :
           Call(MaxSharedSteps, MoveSamplesFrom(t, i, m, r))

SpecShared == Init /\ [][NextShared]_vars

\* The operations: calls of split and split_block, on every combination of
\* the arguments.
NextSplit ==
    \/ \E tensor \in SplitTensors, axis \in SplitAxes, grouped_idxs \in GroupedIdxs :
           Split(tensor, axis, grouped_idxs)
    \/ \E block \in SplitTensors, axis \in SplitAxes, grouped_idxs \in GroupedIdxs :
           SplitBlock(block, axis, grouped_idxs)

SpecSplit == Init /\ [][NextSplit]_vars

\* into_eqs_array and destroy from several threads, with the host wrapping
\* arrays and dropping its wrappers, and the collector. The host's own calls
\* run while no other thread holds the GIL; it does not drop a wrapper on
\* which a thread is inside into_eqs_array (that thread references it).
NextThreads ==
    \/ \E b \in LifeBackends :
           interp.gil = "" /\ Call(MaxThreadSteps, Wrap(b, <<2, 2>>))
    \/ \E w \in Wrappers :
           /\ interp.gil = "" /\ InFlight(w, {"incref", "incref_store"}) = {}
           /\ Call(MaxThreadSteps, DelWrapper(w))
    \/ interp.gil = "" /\ GcCollect
    \/ \E th \in Threads, w \in Wrappers :
           ThreadCall(MaxThreadSteps, ThreadInto(th, w))
    \/ \E th \in Threads, t \in Tokens :
           ThreadCall(MaxThreadSteps, ThreadDestroy(th, t))
    \/ \E th \in Threads : SwitchOut(th)
    \/ \E th \in Threads : SwitchIn(th)
    \/ \E th \in Threads : LoadRefcnt(th)
    \/ \E th \in Threads : StoreRefcnt(th)

SpecThreads == Init /\ [][NextThreads]_vars

\* =================================================================
\* Properties
\* =================================================================
\* the references to wrapper w that host variables account for
HostRefs(w) == IF host[w] THEN 1 ELSE 0
\* the handle's reference count: the references the native core accounts for
HandleCount(w) == wrappers[w].ob_refcnt - HostRefs(w)
\* the wrapper object, and with it the array it references, is still there
Reachable(w) == ~wrappers[w].collected /\ wrappers[w].ob_refcnt > 0

\* C1: destroy is refcount-balanced. While at least one into_eqs_array on a
\* wrapper is not yet matched by a destroy, the wrapper and its array stay
\* reachable, whether or not the host still names them; once every
\* into_eqs_array is matched and the host has dropped its variable, the
\* wrapper is collectible (or already collected).
C1_RefcountBalanced ==
    \A w \in Wrappers :
        /\ Outstanding(w) > 0 => Reachable(w)
        /\ (Outstanding(w) = 0 /\ ~host[w]) =>
               (wrappers[w].collected \/ Collectible(w))

\* C1 witness: two into_eqs_array calls on a wrapper the host has dropped,
\* both matched by a destroy, and the wrapper collected.
C1_Witness ==
    \E w \in Wrappers :
        /\ calls[w].into = 2 /\ calls[w].destroy = 2
        /\ ~host[w] /\ wrappers[w].collected

\* C2 as stated: every into_eqs_array call yields a handle whose own
\* reference count is one.
C2_OwnCountOfOne ==
    ret.op = "into_eqs_array" => HandleCount(ret.this) = 1

\* C2, amended: into_eqs_array on the same wrapper returns the same token and
\* the calls share one count: the count of a live wrapper is the number of
\* into_eqs_array calls not yet matched by a destroy, so a destroy takes one
\* from the shared count and the wrapper lives on while another reference is
\* outstanding.
C2_SharedCount ==
    /\ \A w \in Wrappers :
           ~wrappers[w].collected =>
               /\ HandleCount(w) = Outstanding(w)
               /\ Outstanding(w) > 0 => Reachable(w)
    /\ ret.op = "into_eqs_array" => ret.out = <<ret.this>>

\* C2 witness: into_eqs_array ran twice on a wrapper, one of the two
\* references was destroyed, and the wrapper is still there for the other.
C2_Witness ==
    /\ ret.op = "destroy"
    /\ calls[ret.this].into = 2 /\ calls[ret.this].destroy = 1
    /\ host[ret.this] /\ HandleCount(ret.this) = 1

\* a handle is Active while its count is at least one, and Destroyed once a
\* destroy has brought the count to zero
Active(w) == HandleCount(w) >= 1
Destroyed(w) == calls[w].destroy > 0 /\ HandleCount(w) = 0

\* C3 as stated: Destroyed is terminal, no call moves a handle from Destroyed
\* back to Active.
C3_DestroyedIsTerminal ==
    [][\A w \in Wrappers : Destroyed(w) => ~Active(w)']_vars

\* C3, amended: destroy moves a handle from Active to Destroyed when it takes
\* the last reference; Destroyed is terminal once the host holds no variable
\* naming the wrapper (nothing can call into_eqs_array on it any more), and
\* only a handle in that state is ever collected.
C3_DestroyedIsTerminalWithoutHost ==
    [][\A w \in Wrappers :
          /\ (Destroyed(w) /\ ~host[w]) => (Destroyed(w)' /\ ~host'[w])
          /\ (Active(w) /\ ~Active(w)') => Destroyed(w)'
          /\ wrappers'[w].collected =>
                 (wrappers[w].ob_refcnt = 0 /\ ~host[w] /\ ~Active(w))
                 \/ wrappers[w].collected]_vars

\* C3 witness: a handle went Created -> Active -> Destroyed with the host's
\* variable dropped, and was collected.
C3_Witness ==
    \E w \in Wrappers :
        /\ Destroyed(w) /\ ~host[w] /\ wrappers[w].collected
        /\ calls[w].made_by = "host"

\* the wrappers create and copy made, each with the handle it was made from
Made == {w \in Wrappers : calls[w].made_by \in {"create", "copy"}}

\* C10: a handle returned by create or copy starts with a reference count of
\* exactly one, create and copy leave the count of the handle they are called
\* on as it was, a destroy changes the count of no other handle, and a
\* wrapper is never collected while a reference to it is outstanding,
\* whatever happened to the handle it was made from or to those made from it.
C10_IndependentLifetime ==
    [][/\ ret'.op \in {"create", "copy"} =>
              /\ Len(wrappers') = Len(wrappers) + 1
              /\ \A new \in 1..(MaxWrappers + 1) :
                     new = Len(wrappers) + 1 =>
                         HandleCount(new)' = 1 /\ Outstanding(new)' = 1
              /\ \A w \in Wrappers : wrappers'[w] = wrappers[w]
       /\ ret'.op = "destroy" =>
              \A w \in Wrappers \ {ret'.this} : wrappers'[w] = wrappers[w]
       /\ \A w \in Wrappers : Outstanding(w)' > 0 => Reachable(w)']_vars

\* C10 witness: h was destroyed to zero and collected, and the handle made
\* from it by create or copy is then used.
C10_Witness ==
    \E c \in Made :
        /\ wrappers[calls[c].parent].collected
        /\ Outstanding(c) = 1 /\ Reachable(c)
        /\ ret.op = "shape" /\ ret.this = c /\ ret.status = EQS_SUCCESS

\* the calls that change the array of the handle they are called on
Mutators == {"reshape", "swap_axes", "move_samples_from"}

\* C4: reshape(h, s2) succeeds if and only if the product of s2 is the
\* product of the shape of h, and after a successful reshape shape(h) returns
\* exactly s2.
C4_ReshapeIffSameCount ==
    [][\A t \in Wrappers, s \in ReqShapes :
          (ret'.op = "reshape" /\ ret'.this = t /\ Reshape(t, s)) =>
              /\ ret'.status = EQS_SUCCESS <=>
                     Product(s) = Product(_eqs_array_shape(wrappers[t]).shape)
              /\ ret'.status = EQS_SUCCESS =>
                     _eqs_array_shape(wrappers'[t]).shape = s]_vars

\* C4 witness: a reshape of a (2, 2, 2) array to (4, 2) succeeded.
C4_Witness ==
    /\ ret.op = "reshape" /\ ret.status = EQS_SUCCESS
    /\ wrappers[ret.this]._shape = <<4, 2>>
    /\ Len(heap[wrappers[ret.this].array.buf]) = 8

\* C5: a reshape to a shape of another element count returns a non-success
\* status and changes nothing: the wrapped array, its values and the cached
\* shape are as before, and so is the rest of the state later calls read.
C5_FailedReshapeChangesNothing ==
    [][\A t \in Wrappers, s \in ReqShapes :
          (ret'.op = "reshape" /\ ret'.this = t /\ Reshape(t, s)
           /\ Product(s) # Product(wrappers[t].array.shape)) =>
              /\ ret'.status # EQS_SUCCESS
              /\ wrappers'[t] = wrappers[t]
              /\ _eqs_array_shape(wrappers'[t]) = _eqs_array_shape(wrappers[t])
              /\ Values(heap', wrappers'[t].array) = Values(heap, wrappers[t].array)
              /\ UNCHANGED <<heap, wrappers, host, calls, _NUMPY_STORAGE_ORIGIN,
                             _TORCH_STORAGE_ORIGIN, registry>>]_vars

\* C5 witness: a reshape of a (2, 2, 2) array that had its axes swapped
\* failed.
C5_Witness ==
    /\ ret.op = "reshape" /\ ret.status # EQS_SUCCESS
    /\ wrappers[ret.this]._shape = <<2, 2, 2>>
    /\ ~c_contiguous(wrappers[ret.this].array)

\* no two pairs of the mapping write the same sample of the destination
OneToOne(samples) ==
    \A j, k \in 1..Len(samples) :
        j # k => samples[j].output # samples[k].output

\* the precondition of move_samples_from: dest and src agree on every
\* dimension between the first and the last, and [start, end) is a range of
\* dest's properties as wide as src's last dimension
MovePrecondition(dest, src, range) ==
    /\ Len(dest.shape) = Len(src.shape)
    /\ Middle(dest.shape) = Middle(src.shape)
    /\ range[2] - range[1] = Last(src.shape)
    /\ range[2] <= Last(dest.shape)

\* C6: move_samples_from(dest, src, mapping, start, end), for a one-to-one
\* mapping and arrays that meet the precondition, sets dest[output, ...,
\* start:end] to src[input, ..., :] for every pair of the mapping; and every
\* successful call leaves the samples of dest that are no output of the
\* mapping, and the properties of dest outside [start, end), as they were.
C6_MoveSamples ==
    [][(ret'.op = "move_samples_from" /\ ret'.status = EQS_SUCCESS) =>
       \A t \in {ret'.this}, i \in Wrappers, m \in Mappings, r \in Ranges :
          MoveSamplesFrom(t, i, m, r) =>
              LET dest == wrappers[t].array
                  src == wrappers[i].array
              IN  /\ (OneToOne(m) /\ MovePrecondition(dest, src, r)) =>
                         \A k \in 1..Len(m), e \in Indices(Tail(src.shape)) :
                             Elem(heap', dest, <<m[k].output>> \o Front(e)
                                               \o <<r[1] + Last(e)>>)
                                 = Elem(heap, src, <<m[k].input>> \o e)
                  /\ \A idx \in Indices(dest.shape) :
                         (\/ \A k \in 1..Len(m) : m[k].output # idx[1]
                          \/ Last(idx) < r[1]
                          \/ Last(idx) >= r[2]) =>
                             Elem(heap', dest, idx) = Elem(heap, dest, idx)]_vars

\* C6 witness: the zeros of a created (1, 2, 1) array were moved into
\* property 1 of sample 1 of a (2, 2, 2) array holding 1..8; the other values
\* of that array are still there.
C6_Witness ==
    /\ ret.op = "move_samples_from" /\ ret.status = EQS_SUCCESS
    /\ wrappers[ret.this]._shape = <<2, 2, 2>>
    /\ Flat(heap, wrappers[ret.this].array) = <<1, 2, 3, 4, 5, 0, 7, 0>>

\* C7 as stated: move_samples_from returns a non-success status whenever dest
\* and src differ on a dimension between the first and the last, or
\* end - start is not the width of src's last dimension.
C7_PreconditionIsChecked ==
    [][ret'.op = "move_samples_from" =>
       \A t \in {ret'.this}, i \in Wrappers, m \in Mappings, r \in Ranges :
          (/\ MoveSamplesFrom(t, i, m, r)
           /\ \/ Middle(wrappers[t].array.shape) # Middle(wrappers[i].array.shape)
              \/ r[2] - r[1] # Last(wrappers[i].array.shape)) =>
              ret'.status # EQS_SUCCESS]_vars

\* the wrappers copy made, and those create made
Copies == {w \in Wrappers : calls[w].made_by = "copy"}
Created == {w \in Wrappers : calls[w].made_by = "create"}

\* what the native core sees through handle w is the same before and after
SameView(w) ==
    /\ wrappers'[w]._shape = wrappers[w]._shape
    /\ Values(heap', wrappers'[w].array) = Values(heap, wrappers[w].array)

\* C8: copy(h) returns a new handle with reference count one, with the shape
\* and the values of h at the time of the call, in a buffer no other array
\* uses; a later reshape, swap_axes or move_samples_from through h or through
\* the copy changes neither the shape nor the values seen through the other.
C8_CopyIsIndependent ==
    [][/\ ret'.op = "copy" =>
              \A new \in 1..(MaxWrappers + 1) :
                  new = Len(wrappers) + 1 =>
                      /\ Len(wrappers') = new
                      /\ HandleCount(new)' = 1
                      /\ wrappers'[new]._shape = wrappers[ret'.this]._shape
                      /\ Values(heap', wrappers'[new].array)
                             = Values(heap, wrappers[ret'.this].array)
                      /\ \A w \in Wrappers :
                             wrappers'[new].array.buf # wrappers[w].array.buf
       /\ ret'.op \in Mutators =>
              \A c \in Copies :
                  /\ ret'.this = c => SameView(calls[c].parent)
                  /\ ret'.this = calls[c].parent => SameView(c)]_vars

\* C8 witness: move_samples_from wrote through a copy, whose values now
\* differ from those of the handle it was copied from.
C8_Witness ==
    \E c \in Copies :
        /\ ret.op = "move_samples_from" /\ ret.this = c
        /\ ret.status = EQS_SUCCESS
        /\ wrappers[c]._shape = wrappers[calls[c].parent]._shape
        /\ Values(heap, wrappers[c].array)
               # Values(heap, wrappers[calls[c].parent].array)

\* C9: create(h, shape) returns a new handle of exactly the requested shape,
\* all zeros, of the backend kind, origin and element type of h; a later
\* reshape, swap_axes or move_samples_from through the new handle changes
\* neither the shape nor the values of h.
C9_CreateZeros ==
    [][/\ \A t \in Wrappers, s \in ReqShapes :
              (ret'.op = "create" /\ ret'.this = t /\ Create(t, s)) =>
                  \A new \in 1..(MaxWrappers + 1) :
                      new = Len(wrappers) + 1 =>
                          /\ Len(wrappers') = new
                          /\ _eqs_array_shape(wrappers'[new]).shape = s
                          /\ wrappers'[new].array.shape = s
                          /\ \A idx \in Indices(s) :
                                 Elem(heap', wrappers'[new].array, idx) = 0
                          /\ wrappers'[new].origin = wrappers[t].origin
                          /\ wrappers'[new].array.kind = wrappers[t].array.kind
                          /\ wrappers'[new].array.dtype = wrappers[t].array.dtype
                          /\ SameView(t)
       /\ ret'.op \in Mutators =>
              \A c \in Created : ret'.this = c => SameView(calls[c].parent)]_vars

\* C9 witness: a handle created from a float32 array was written to with
\* move_samples_from.
C9_Witness ==
    \E c \in Created :
        /\ ret.op = "move_samples_from" /\ ret.this = c
        /\ ret.status = EQS_SUCCESS
        /\ wrappers[c].array.dtype = "float32"
        /\ \E k \in 1..Len(heap[wrappers[c].array.buf]) :
               heap[wrappers[c].array.buf][k] # 0

\* C11: swap_axes is an involution. After a successful swap_axes(h, i, j), a
\* second swap_axes(h, i, j) succeeds and gives back the cached shape and the
\* element ordering h had before the first: every multi-index holds the
\* value it held before the two calls.
C11_SwapAxesInvolution ==
    [][(ret'.op = "swap_axes" /\ ret'.status = EQS_SUCCESS) =>
       \A t \in {ret'.this}, i \in Axes, j \in Axes :
          SwapAxes(t, i, j) =>
              LET again == _eqs_array_swap_axes(wrappers'[t], i, j)
              IN  /\ again.exc = ""
                  /\ _eqs_array_shape(again.wrapper).shape
                         = _eqs_array_shape(wrappers[t]).shape
                  /\ again.wrapper.array.shape = wrappers[t].array.shape
                  /\ Values(heap', again.wrapper.array)
                         = Values(heap, wrappers[t].array)]_vars

\* C11 witness: two swap_axes in a row on the handle of a (2, 2, 2) array,
\* after which it is a (2, 2, 2) array holding 1..8 in C order again.
C11_Witness ==
    /\ ret.op = "swap_axes" /\ ret.status = EQS_SUCCESS
    /\ steps = 4 /\ Len(wrappers) = 1 /\ calls[ret.this].into = 1
    /\ wrappers[ret.this]._shape = <<2, 2, 2>>
    /\ wrappers[ret.this].array.strides = CStrides(<<2, 2, 2>>)
    /\ Flat(heap, wrappers[ret.this].array) = <<1, 2, 3, 4, 5, 6, 7, 8>>

\* C12: a successful swap_axes(h, i, j) exchanges the sizes at positions i
\* and j of the cached shape and leaves the other sizes in place, keeps the
\* element count, and keeps every value: the element at an index afterwards
\* is the element that was at the index with its entries i and j exchanged.
C12_SwapAxesExchanges ==
    [][(ret'.op = "swap_axes" /\ ret'.status = EQS_SUCCESS) =>
       \A t \in {ret'.this}, i \in Axes, j \in Axes :
          SwapAxes(t, i, j) =>
              LET old == _eqs_array_shape(wrappers[t]).shape
                  new == _eqs_array_shape(wrappers'[t]).shape
              IN  /\ Len(new) = Len(old)
                  /\ new[i + 1] = old[j + 1] /\ new[j + 1] = old[i + 1]
                  /\ \A k \in 1..Len(old) :
                         k \notin {i + 1, j + 1} => new[k] = old[k]
                  /\ Product(new) = Product(old)
                  /\ \A idx \in Indices(new) :
                         Elem(heap', wrappers'[t].array, idx)
                             = Elem(heap, wrappers[t].array,
                                    [k \in 1..Len(idx) |->
                                        IF k = i + 1 THEN idx[j + 1]
                                        ELSE IF k = j + 1 THEN idx[i + 1]
                                        ELSE idx[k]])]_vars

\* C12 witness: swap_axes(h, 0, 2) on the handle of a (2, 2, 2) array holding
\* 1..8: the element at (1, 0, 0) is now the one that was at (0, 0, 1).
C12_Witness ==
    /\ ret.op = "swap_axes" /\ ret.status = EQS_SUCCESS
    /\ wrappers[ret.this]._shape = <<2, 2, 2>>
    /\ Flat(heap, wrappers[ret.this].array) = <<1, 5, 3, 7, 2, 6, 4, 8>>

\* C13: for every backend kind and every shape, the shape callback on the
\* handle wrap(a).into_handle() returns a's shape: ArrayWrapper(a) on an
\* array of shape s caches s, and the first shape call after the first
\* into_eqs_array of a wrapper of the host (no call through the handle can
\* have come before) succeeds and returns the sizes of the wrapped array,
\* as many and in the same order.
C13_ShapeOfWrapped ==
    [][/\ \A b \in Backends \cup DeviceBackends, s \in BridgeShapes :
              Wrap(b, s) =>
                  \A new \in 1..(MaxWrappers + 1) :
                      new = Len(wrappers) + 1 =>
                          _eqs_array_shape(into_eqs_array(wrappers'[new])).shape = s
       /\ \A t \in Wrappers :
              (/\ ret.op = "into_eqs_array" /\ ret.this = t
               /\ calls[t].into = 1 /\ calls[t].made_by = "host"
               /\ ret'.op = "shape" /\ ret'.this = t) =>
                  /\ ret'.status = EQS_SUCCESS
                  /\ ret'.out \in BridgeShapes
                  /\ Len(ret'.out) = Len(wrappers[t].array.shape)
                  /\ \A k \in 1..Len(ret'.out) :
                         ret'.out[k] = wrappers[t].array.shape[k]
                  /\ Product(ret'.out) = Len(heap[wrappers[t].array.buf])]_vars

\* C13 witness: shape on the handle of a wrapped tensor of shape (2, 1)
\* returned (2, 1).
C13_Witness ==
    /\ ret.op = "shape" /\ ret.status = EQS_SUCCESS /\ ret.out = <<2, 1>>
    /\ steps = 3 /\ Len(wrappers) = 1
    /\ wrappers[ret.this].array.kind = "torch"

\* the entries of the vtable
VtableOps ==
    {"origin", "data", "shape", "reshape", "swap_axes", "create", "copy",
     "destroy", "move_samples_from"}

\* C14: whatever a vtable callback raises is caught at the callback boundary
\* and returned as a non-zero status, never handed to the caller as an
\* exception, and a callback that raised nothing returns EQS_SUCCESS = 0:
\* every call returns a status, which is non-zero exactly when the callback
\* raised (data on an array that is off-host, not contiguous or not float64;
\* reshape to another element count; swap_axes of an axis the array does not
\* have; an assignment numpy rejects in move_samples_from) and zero
\* otherwise (always for origin, shape, create, copy and destroy).
C14_FailuresBecomeStatus ==
    [][ret'.op \in VtableOps =>
       /\ ret'.status \in {EQS_SUCCESS, EQS_CALLBACK_ERROR}
       /\ EQS_SUCCESS = 0 /\ EQS_CALLBACK_ERROR # 0
       /\ ret'.this \in Tokens
       /\ \A t \in {ret'.this} :
             LET a == wrappers[t].array
                 failed == ret'.status # EQS_SUCCESS
             IN  /\ (ret'.op \in {"origin", "shape", "create", "copy", "destroy"}) =>
                        ~failed
                 /\ (ret'.op = "data" /\ Data(t)) =>
                        (failed <=> \/ a.device # "cpu" \/ ~c_contiguous(a)
                                    \/ a.dtype # "float64")
                 /\ \A s \in BridgeReqShapes :
                        (ret'.op = "reshape" /\ Reshape(t, s)) =>
                            (failed <=> Product(s) # Product(a.shape))
                 /\ \A i \in Axes, j \in Axes :
                        (ret'.op = "swap_axes" /\ SwapAxes(t, i, j)) =>
                            (failed <=> (i >= Len(a.shape) \/ j >= Len(a.shape)))
                 /\ \A i \in Wrappers, m \in BridgeMappings, r \in BridgeRanges :
                        (ret'.op = "move_samples_from"
                         /\ MoveSamplesFrom(t, i, m, r)) =>
                            (failed <=> _eqs_array_move_samples_from(heap,
                                            wrappers[t], wrappers[i], m,
                                            r[1], r[2]).exc # "")]_vars

\* C14 witness: reshape raised (the element counts differ) on a handle that
\* had its axes swapped, and the call returned the error status.
C14_Witness ==
    /\ ret.op = "reshape" /\ ret.status = EQS_CALLBACK_ERROR
    /\ ret.this \in Tokens
    /\ wrappers[ret.this].array.strides # CStrides(wrappers[ret.this]._shape)

\* the elements of a view lie in its buffer one after the other in C order
DenseCOrder(a) ==
    \A k \in 0..(Product(a.shape) - 1) : Dot(Unravel(k, a.shape), a.strides) = k

\* the failures of data, by the names the specification gives them
DeviceError == "ValueError: can only get data pointer for tensors on CPU"
ContiguityError == "ValueError: can not get data pointer for non contiguous array"
DtypeError == "ValueError: can not get data pointer for array type"

\* C15: data succeeds only on an array that is host-resident, contiguous and
\* of 64-bit floats, and then returns the address of the handle's own
\* storage; it fails with DeviceError on an array off the host, with
\* ContiguityError on a host array that is not contiguous, with DtypeError
\* on a contiguous host array of another element type; and when it fails
\* no pointer is written.
C15_DataPointer ==
    ret.op = "data" =>
        LET a == wrappers[ret.this].array
            r == _eqs_array_data(wrappers[ret.this])
        IN  /\ ret.status = EQS_SUCCESS =>
                   /\ a.device = "cpu" /\ DenseCOrder(a) /\ a.dtype = "float64"
                   /\ ret.out = <<a.buf>>
                   /\ Len(heap[a.buf]) = Product(wrappers[ret.this]._shape)
            /\ ret.status # EQS_SUCCESS =>
                   /\ ret.out = <<>>
                   /\ r.exc \in {DeviceError, ContiguityError, DtypeError}
            /\ a.device # "cpu" =>
                   ret.status # EQS_SUCCESS /\ r.exc = DeviceError
            /\ (a.device = "cpu" /\ ~DenseCOrder(a)) =>
                   ret.status # EQS_SUCCESS /\ r.exc = ContiguityError
            /\ (a.device = "cpu" /\ DenseCOrder(a) /\ a.dtype # "float64") =>
                   ret.status # EQS_SUCCESS /\ r.exc = DtypeError

\* C15 witness: data failed on the handle of a float64 array in host memory
\* whose axes were swapped, and wrote no pointer.
C15_Witness ==
    /\ ret.op = "data" /\ ret.status # EQS_SUCCESS /\ ret.out = <<>>
    /\ wrappers[ret.this].array.device = "cpu"
    /\ wrappers[ret.this].array.dtype = "float64"
    /\ ~c_contiguous(wrappers[ret.this].array)

\* C16 as stated: ArrayWrapper on an object that is neither a numpy array nor
\* a torch tensor raises TypeError to its caller and creates no handle:
\* no wrapper, no reference taken, no origin registered.
C16_UnknownTypeIsTypeError ==
    [][\A o \in UnknownObjects :
          (ret'.op = "ArrayWrapper" /\ WrapUnknown(o)) =>
              /\ ret'.out = <<"TypeError">>
              /\ UNCHANGED <<heap, wrappers, host, calls, registry,
                             _NUMPY_STORAGE_ORIGIN, _TORCH_STORAGE_ORIGIN>>]_vars

\* C17 as stated: a vtable call on a handle changes nothing of any other
\* existing handle, neither its values nor its cached shape nor its
\* reference count, also when the other handle wraps the same array.
C17_OnlyThisHandle ==
    [][ret'.op \in VtableOps =>
       \A w \in Wrappers \ {ret'.this} :
          /\ wrappers'[w]._shape = wrappers[w]._shape
          /\ wrappers'[w].ob_refcnt = wrappers[w].ob_refcnt
          /\ Values(heap', wrappers'[w].array) = Values(heap, wrappers[w].array)]_vars

\* the tags under which a name was registered with the native registry
Registered(name) == {k \in 1..Len(registry) : registry[k] = name}
\* the module-level cache of a backend kind, and the name of its origin
OriginCache(kind) ==
    IF kind = "numpy" THEN _NUMPY_STORAGE_ORIGIN ELSE _TORCH_STORAGE_ORIGIN
OriginName(kind) ==
    IF kind = "numpy" THEN "equistore.data.array.numpy"
    ELSE "equistore.data.array.torch"

\* C18: origin registration is idempotent per call site. The origin of a
\* backend kind is registered by the first ArrayWrapper of that kind and
\* never again: a step registers at most one name, only while the cache of
\* its kind is empty, and the cache then holds the new tag for good; no
\* name is ever registered twice; and every wrapper of a kind carries the
\* tag in the cache of its kind, so all handles of one kind carry one tag.
C18_OriginRegisteredOnce ==
    [][/\ \A kind \in {"numpy", "torch"} :
              /\ Cardinality(Registered(OriginName(kind)))' <= 1
              /\ OriginCache(kind) # None =>
                     /\ OriginCache(kind)' = OriginCache(kind)
                     /\ Registered(OriginName(kind))' = {OriginCache(kind)}
              /\ OriginCache(kind) = None =>
                     /\ Registered(OriginName(kind)) = {}
                     /\ OriginCache(kind)' # None =>
                            /\ registry' = Append(registry, OriginName(kind))
                            /\ OriginCache(kind)' = Len(registry')
       /\ registry' # registry =>
              \E kind \in {"numpy", "torch"} :
                  OriginCache(kind) = None /\ OriginCache(kind)' # None
       /\ \A w \in 1..(MaxWrappers + 1), kind \in {"numpy", "torch"} :
              (w <= Len(wrappers') /\ wrappers'[w].array.kind = kind) =>
                  wrappers'[w].origin = OriginCache(kind)'
       /\ \A w \in Wrappers : wrappers'[w].origin = wrappers[w].origin]_vars

\* C18 witness: three wrappers, two of them of numpy arrays and made one by
\* the host and one by a callback, and two names in the registry.
C18_Witness ==
    /\ Len(wrappers) = 3 /\ Len(registry) = 2
    /\ \E v, w \in Wrappers :
           /\ v # w /\ wrappers[v].origin = wrappers[w].origin
           /\ wrappers[v].array.kind = "numpy" /\ wrappers[w].array.kind = "numpy"
           /\ calls[v].made_by = "host" /\ calls[w].made_by # "host"

\* C19: the origin callback of a handle returns the tag registered for the
\* kind of the array it wraps: the name registered under the returned tag is
\* "equistore.data.array.numpy" for a numpy array and
\* "equistore.data.array.torch" for a tensor; and the tag of a wrapper is
\* the one looked up when it was built: no later call (reshape, swap_axes,
\* move_samples_from, into_eqs_array or any other) changes it or what the
\* callback returns.
C19_OriginOfKind ==
    [][/\ ret'.op = "origin" =>
              /\ ret'.status = EQS_SUCCESS
              /\ Len(ret'.out) = 1
              /\ ret'.out[1] \in 1..Len(registry)
              /\ registry[ret'.out[1]]
                     = OriginName(wrappers[ret'.this].array.kind)
              /\ wrappers[ret'.this].array.kind = "numpy" =>
                     registry[ret'.out[1]] = "equistore.data.array.numpy"
              /\ wrappers[ret'.this].array.kind = "torch" =>
                     registry[ret'.out[1]] = "equistore.data.array.torch"
       /\ \A w \in Wrappers :
              /\ wrappers'[w].array.kind = wrappers[w].array.kind
              /\ eqs_array_origin(wrappers'[w]) = eqs_array_origin(wrappers[w])
              /\ registry'[wrappers'[w].origin] = registry[wrappers[w].origin]]_vars

\* C19 witness: origin on the handle of a tensor, after a swap_axes that
\* changed its layout, returned the tag of "equistore.data.array.torch".
C19_Witness ==
    /\ ret.op = "origin" /\ ret.status = EQS_SUCCESS
    /\ Len(ret.out) = 1 /\ registry[ret.out[1]] = "equistore.data.array.torch"
    /\ wrappers[ret.this].array.kind = "torch"
    /\ ~c_contiguous(wrappers[ret.this].array)

\* C20: into_eqs_array and destroy on one handle from several threads, in
\* any interleaving. No increment and no decrement is lost: the count of a
\* wrapper is the host's reference plus the into_eqs_array calls that
\* returned minus the destroy calls that returned; the count never falls
\* below zero (no second release); a wrapper is reachable while a token of
\* it is outstanding or a thread is inside a call on it (no use after
\* free); and it is collected only after every into_eqs_array was matched by
\* a destroy that returned and the host dropped it.
C20_AtomicRefcount ==
    \A w \in Wrappers :
        LET destroying == Cardinality(InFlight(w, {"decref", "decref_store"}))
            inside == InFlight(w, {"incref", "incref_store", "decref",
                                   "decref_store"})
        IN  /\ wrappers[w].ob_refcnt
                   = HostRefs(w) + calls[w].into - (calls[w].destroy - destroying)
            /\ wrappers[w].ob_refcnt >= 0
            /\ (Outstanding(w) > 0 \/ inside # {}) => Reachable(w)
            /\ wrappers[w].collected =>
                   /\ calls[w].into = calls[w].destroy
                   /\ inside = {} /\ ~host[w]

\* C20 witness: a thread was interrupted inside into_eqs_array before its
\* increment, the other thread has since gone through a whole destroy of a
\* reference to the same wrapper, and the first is now between reading and
\* writing the count.
C20_Witness ==
    \E w \in Wrappers :
        /\ ret.op = "destroy" /\ ret.this = w
        /\ interp.pc["t1"] = "incref_store" /\ interp.this["t1"] = w
        /\ calls[w].into = 1 /\ calls[w].destroy = 1
        /\ wrappers[w].ob_refcnt = 1 /\ interp.refcnt["t1"] = 1

\* C21: the pointer data returns for a handle stays valid across calls on
\* other handles. For every handle h on which data succeeds, a reshape,
\* swap_axes, create, copy, destroy or move_samples_from called on another
\* handle leaves h's wrapper referenced as before and wrapping the same
\* array, and the buffer the pointer names is still there, of the same
\* size, and still the one data returns for h.
C21_PointerSurvivesOtherHandles ==
    [][ret'.op \in {"reshape", "swap_axes", "create", "copy", "destroy",
                    "move_samples_from"} =>
       \A h \in Tokens \ {ret'.this} :
          _eqs_array_data(wrappers[h]).exc = "" =>
              \A p \in {_eqs_array_data(wrappers[h]).data[1]} :
                  /\ wrappers'[h].ob_refcnt = wrappers[h].ob_refcnt
                  /\ ~wrappers'[h].collected
                  /\ wrappers'[h].array = wrappers[h].array
                  /\ p \in 1..Len(heap') /\ Len(heap'[p]) = Len(heap[p])
                  /\ _eqs_array_data(wrappers'[h]) = [exc |-> "", data |-> <<p>>]]_vars

\* C21 witness: move_samples_from wrote to the copy of a handle, reading
\* from that handle, whose data pointer is the buffer it was wrapped with.
C21_Witness ==
    \E h \in Copies :
        /\ ret.op = "move_samples_from" /\ ret.this = h
        /\ ret.status = EQS_SUCCESS
        /\ heap[wrappers[h].array.buf] # heap[wrappers[calls[h].parent].array.buf]
        /\ Outstanding(calls[h].parent) > 0
        /\ _eqs_array_data(wrappers[calls[h].parent]).data = <<1>>

\* C22: shape, origin and data change nothing: the values, the wrapped
\* array, the cached shape and the reference count of every handle, and the
\* rest of the bridge's state, are the same after the call; and a shape call
\* that follows a shape call on the same handle returns the same sizes.
C22_ReadOnly ==
    [][ret'.op \in {"shape", "origin", "data"} =>
       /\ UNCHANGED <<heap, wrappers, host, calls, registry,
                      _NUMPY_STORAGE_ORIGIN, _TORCH_STORAGE_ORIGIN>>
       /\ \A h \in Wrappers :
              /\ Values(heap', wrappers'[h].array) = Values(heap, wrappers[h].array)
              /\ wrappers'[h]._shape = wrappers[h]._shape
              /\ wrappers'[h].ob_refcnt = wrappers[h].ob_refcnt
       /\ (ret.op = "shape" /\ ret'.op = "shape" /\ ret'.this = ret.this) =>
              ret'.out = ret.out]_vars

\* C22 witness: data was called on the handle of an array whose axes were
\* swapped (it failed), and the array is still the swapped view on the
\* buffer it was wrapped with.
C22_Witness ==
    /\ ret.op = "data" /\ ret.status # EQS_SUCCESS
    /\ steps = 4 /\ Len(heap) = 1 /\ Len(wrappers) = 1
    /\ wrappers[1]._shape = <<2, 2, 2>>
    /\ wrappers[1].array.strides = <<1, 2, 4>>
    /\ wrappers[1].ob_refcnt = 2

\* C25: the cached shape is the shape of the wrapped array. In every state,
\* whatever calls were made and whether they succeeded, the sizes shape
\* returns for a wrapper are the sizes of the array it wraps, and they
\* describe as many elements as its buffer holds.
C25_ShapeCacheConsistent ==
    /\ \A w \in Wrappers :
           /\ _eqs_array_shape(wrappers[w]).shape = wrappers[w].array.shape
           /\ Product(wrappers[w]._shape) = Len(heap[wrappers[w].array.buf])
    /\ ret.op = "shape" => ret.out = wrappers[ret.this].array.shape

\* C25 witness: shape returned (1, 2) for a handle wrapped as (2, 1), after
\* a reshape.
C25_Witness ==
    /\ ret.op = "shape" /\ ret.out = <<1, 2>>
    /\ wrappers[ret.this].array.shape = <<1, 2>>
    /\ calls[ret.this].made_by = "host"

\* C26: a successful swap_axes(h, i, j) of two different dimensions that
\* both have more than one element, on a handle on which data succeeds,
\* makes data fail for not being contiguous; the same swap_axes once more
\* makes data succeed again, with the pointer it returned at first.
C26_SwapBreaksContiguity ==
    [][(ret'.op = "swap_axes" /\ ret'.status = EQS_SUCCESS) =>
       \A t \in {ret'.this}, i \in Axes, j \in Axes :
          (/\ SwapAxes(t, i, j) /\ i # j
           /\ wrappers[t]._shape[i + 1] > 1 /\ wrappers[t]._shape[j + 1] > 1
           /\ _eqs_array_data(wrappers[t]).exc = "") =>
              LET again == _eqs_array_swap_axes(wrappers'[t], i, j)
              IN  /\ _eqs_array_data(wrappers'[t])
                         = [exc |-> ContiguityError, data |-> <<>>]
                  /\ again.exc = ""
                  /\ _eqs_array_data(again.wrapper) = _eqs_array_data(wrappers[t])]_vars

\* C26 witness: data failed on the only handle, of a (2, 2, 2) float64 array
\* in host memory, right after the wrap, into_eqs_array and one swap_axes.
C26_Witness ==
    /\ ret.op = "data" /\ ret.status = EQS_CALLBACK_ERROR
    /\ steps = 4 /\ Len(wrappers) = 1 /\ calls[1].into = 1
    /\ wrappers[1].array.dtype = "float64" /\ wrappers[1].array.device = "cpu"
    /\ wrappers[1]._shape = <<2, 2, 2>> /\ ~c_contiguous(wrappers[1].array)
    /\ _eqs_array_data(wrappers[1]).exc = ContiguityError

\* C28 as stated: a move_samples_from that returns a status other than
\* success has written nothing: every value of dest is as it was before the
\* call.
C28_FailedMoveWritesNothing ==
    [][(ret'.op = "move_samples_from" /\ ret'.status # EQS_SUCCESS) =>
       \A t \in {ret'.this} :
          Values(heap', wrappers'[t].array) = Values(heap, wrappers[t].array)]_vars

\* C27 as stated: move_samples_from(dest, src, ...) on two distinct handles
\* changes nothing of src, neither its values nor its cached shape nor its
\* reference count, and leaves the cached shape and the reference count of
\* dest as they were.
C27_MoveLeavesSource ==
    [][ret'.op = "move_samples_from" =>
       \A dest \in {ret'.this}, src \in Tokens \ {ret'.this} :
          (\E m \in SharedMappings, r \in BridgeRanges :
               MoveSamplesFrom(dest, src, m, r)) =>
              /\ Values(heap', wrappers'[src].array)
                     = Values(heap, wrappers[src].array)
              /\ wrappers'[src]._shape = wrappers[src]._shape
              /\ wrappers'[src].ob_refcnt = wrappers[src].ob_refcnt
              /\ wrappers'[dest]._shape = wrappers[dest]._shape
              /\ wrappers'[dest].ob_refcnt = wrappers[dest].ob_refcnt]_vars

\* C23: split(tensor, axis, grouped_idxs) returns as many TensorMaps as
\* grouped_idxs has Labels, in their order; each has the keys of the input
\* and as many blocks, and its k-th block is the k-th block of the input
\* sliced along the axis by the Labels of its group. split_block returns as
\* many blocks as grouped_idxs has Labels, the g-th being the input block
\* sliced by the g-th Labels.
C23_SplitInOrder ==
    (split_call.fn \in {"split", "split_block"} /\ split_call.result.exc = "") =>
        LET groups == split_call.grouped_idxs.items
            out == split_call.result.out
            sliced(block, g) ==
                IF split_call.axis.value = "samples"
                THEN _slice_block(block, groups[g], NoneObject)
                ELSE _slice_block(block, NoneObject, groups[g])
        IN  /\ Len(out) = Len(groups)
            /\ split_call.fn = "split" =>
                   \A g \in 1..Len(groups) :
                      /\ isinstance(out[g], "TensorMap")
                      /\ out[g].keys = split_call.tensor.keys
                      /\ Len(out[g].blocks) = Len(split_call.tensor.blocks)
                      /\ \A k \in 1..Len(split_call.tensor.blocks) :
                             out[g].blocks[k] = sliced(split_call.tensor.blocks[k], g)
            /\ split_call.fn = "split_block" =>
                   \A g \in 1..Len(groups) : out[g] = sliced(split_call.tensor, g)

\* C23 witness: a tensor of two blocks was split along the samples into the
\* structure 0 and the structures 2 and 1: the first tensor returned holds
\* the two samples of structure 0 of the first block and none of the second,
\* the second one sample of the first block and both of the second.
C23_Witness ==
    /\ split_call.fn = "split" /\ split_call.result.exc = ""
    /\ split_call.axis = str("samples")
    /\ split_call.grouped_idxs
           = list(<<Labels(<<"structure">>, <<<<0>>>>),
                    Labels(<<"structure">>, <<<<2>>, <<1>>>>)>>)
    /\ split_call.result.out[1].blocks[1].values = <<<<1, 2>>, <<3, 4>>>>
    /\ split_call.result.out[1].blocks[2].values = <<>>
    /\ split_call.result.out[2].blocks[1].values = <<<<5, 6>>>>
    /\ split_call.result.out[2].blocks[2].samples.values = <<<<1, 0>>, <<2, 0>>>>

\* C24: split and split_block reject invalid arguments before they slice.
\* A call with an argument of a wrong type (tensor or block, axis,
\* grouped_idxs or one of its elements) or of a wrong value (an axis other
\* than "samples" and "properties", Labels whose names differ, a name the
\* chosen axis does not have) raises and makes no slice; it raises
\* TypeError only if a type is wrong and ValueError only if a value is, so
\* TypeError when only types are wrong and ValueError when only values are;
\* a call with valid arguments does not raise, and an empty grouped_idxs
\* with a valid tensor and axis gives the empty list.
C24_InvalidArgumentsRejected ==
    split_call.fn \in {"split", "split_block"} =>
        LET c == split_call
            items == c.grouped_idxs.items
            badTensor == c.tensor.class #
                (IF c.fn = "split" THEN "TensorMap" ELSE "TensorBlock")
            badAxisType == c.axis.class # "str"
            badAxis == ~badAxisType /\ c.axis.value \notin {"samples", "properties"}
            badList == c.grouped_idxs.class # "list"
            badItem == ~badList /\ \E k \in 1..Len(items) : items[k].class # "Labels"
            allLabels == ~badList /\ ~badItem
            block == IF c.fn = "split" THEN c.tensor.blocks[1] ELSE c.tensor
            axisNames == IF c.axis.value = "samples" THEN block.samples.names
                         ELSE block.properties.names
            namesDiffer == allLabels /\ \E j, k \in 1..Len(items) :
                               items[j].names # items[k].names
            nameAbsent ==
                /\ allLabels /\ ~badTensor /\ ~badAxisType /\ ~badAxis
                /\ \E k \in 1..Len(items) : \E n \in 1..Len(items[k].names) :
                       \A a \in 1..Len(axisNames) : axisNames[a] # items[k].names[n]
            wrongType == badTensor \/ badAxisType \/ badList \/ badItem
            wrongValue == badAxis \/ namesDiffer \/ nameAbsent
        IN  /\ (wrongType \/ wrongValue) =>
                   /\ c.result.exc \in {"TypeError", "ValueError"}
                   /\ c.result.sliced = 0 /\ c.result.out = <<>>
            /\ c.result.exc = "TypeError" => wrongType
            /\ c.result.exc = "ValueError" => wrongValue
            /\ ~(wrongType \/ wrongValue) => c.result.exc = ""
            /\ (~badTensor /\ ~badAxisType /\ ~badAxis /\ c.grouped_idxs = list(<<>>)) =>
                   c.result = Outcome("", <<>>, 0)

\* C24 witness: split along the properties by Labels of structures, a name
\* the properties do not have, raised ValueError and sliced nothing.
C24_Witness ==
    /\ split_call.fn = "split" /\ isinstance(split_call.tensor, "TensorMap")
    /\ split_call.axis = str("properties")
    /\ split_call.grouped_idxs = list(<<Labels(<<"structure">>, <<<<0>>>>)>>)
    /\ split_call.result = Outcome("ValueError", <<>>, 0)

====
